---- MODULE Spec2Model ----
(***************************************************************************)
(* A model of revgrep (src/revgrep.go): Checker.Check, Checker.linesChanged *)
(* and GitPatch.                                                           *)
(*                                                                         *)
(* Text is modelled as it is in the program: a line is a sequence of       *)
(* one-character strings, and the string functions the code calls          *)
(* (strings.HasPrefix, slicing, strings.Split, strconv.ParseUint,          *)
(* filepath.Rel, the line pattern) are operators computed on those         *)
(* sequences.                                                              *)
(***************************************************************************)
EXTENDS Integers, Sequences, FiniteSets, TLC

(***************************************************************************)
(* Bounds of the model.                                                    *)
(***************************************************************************)
\* longest patch read by linesChanged when it is called on its own
MaxDiffLen == 7
\* longest patch read when Check is given a patch
MaxPatchLen == 3
\* longest patch read when the patch comes from GitPatch
MaxGitPatchLen == 2
\* most lines read from Check's reader
MaxInput == 2

(***************************************************************************)
(* Strings.                                                                *)
(***************************************************************************)
Digit == {"0","1","2","3","4","5","6","7","8","9"}

\* \s of the line pattern
Space == {" ", "\t"}

Max(S) == CHOOSE x \in S : \A y \in S : y <= x

Min(S) == CHOOSE x \in S : \A y \in S : x <= y

\* strings.HasPrefix(str, prefix)
HasPrefix(str, prefix) ==
    /\ Len(str) >= Len(prefix)
    /\ SubSeq(str, 1, Len(prefix)) = prefix

\* str[k:] for 0 <= k <= len(str); the callers model the panic for k > len(str)
SliceFrom(str, k) == SubSeq(str, k + 1, Len(str))

\* strings.Split(str, sep) for a one-character sep
RECURSIVE Split(_, _)
Split(str, sep) ==
    IF \A i \in 1..Len(str) : str[i] # sep
    THEN <<str>>
    ELSE LET i == Min({j \in 1..Len(str) : str[j] = sep})
         IN  <<SubSeq(str, 1, i - 1)>> \o Split(SubSeq(str, i + 1, Len(str)), sep)

\* strings.Join(elems, sep)
RECURSIVE Join(_, _)
Join(elems, sep) ==
    IF elems = <<>> THEN <<>>
    ELSE IF Len(elems) = 1 THEN elems[1]
    ELSE elems[1] \o <<sep>> \o Join(Tail(elems), sep)

DigitVal(ch) ==
    CASE ch = "0" -> 0 [] ch = "1" -> 1 [] ch = "2" -> 2 [] ch = "3" -> 3
      [] ch = "4" -> 4 [] ch = "5" -> 5 [] ch = "6" -> 6 [] ch = "7" -> 7
      [] ch = "8" -> 8 [] ch = "9" -> 9

RECURSIVE DecimalVal(_)
DecimalVal(str) ==
    IF str = <<>> THEN 0
    ELSE 10 * DecimalVal(SubSeq(str, 1, Len(str) - 1)) + DigitVal(str[Len(str)])

RECURSIVE StripZeros(_)
StripZeros(str) ==
    IF str # <<>> /\ str[1] = "0" THEN StripZeros(Tail(str)) ELSE str

\* the number of decimal digits of 1<<64 - 1 = 18446744073709551615
MaxUintDigits == 20

(***************************************************************************)
(* strconv.ParseUint(str, 10, 64) followed by the conversion int(v) that   *)
(* every caller applies.  err is "" (nil), "syntax" or "range"; on a       *)
(* syntax error the value is 0, on a range error it is 1<<64 - 1, which    *)
(* int() turns into -1.  A digit string of more than MaxUintDigits         *)
(* significant digits is out of range; values of 10 to 20 significant      *)
(* digits do not fit the checker's integers and are not part of the input  *)
(* alphabets.                                                              *)
(***************************************************************************)
ParseUint(str) ==
    IF str = <<>> \/ \E i \in 1..Len(str) : str[i] \notin Digit
    THEN [err |-> "syntax", val |-> 0]
    ELSE IF Len(StripZeros(str)) > MaxUintDigits
    THEN [err |-> "range", val |-> -1]
    ELSE [err |-> "", val |-> DecimalVal(StripZeros(str))]

\* length of the longest run of characters of class at str[i], str[i+1], ...
Run(str, i, class) ==
    Max({k \in 0..(Len(str) - i + 1) : \A j \in i..(i + k - 1) : str[j] \in class})

(***************************************************************************)
(* The default line pattern, written here with its groups spaced out,     *)
(*     ( .*? \.go ) : ( [0-9]+ ) : ( [0-9]+ )? :? \s* ( .* )               *)
(* as regexp.FindSubmatch applies it: the leftmost match starts at the     *)
(* first character, the lazy first group ends at the first ".go" that is   *)
(* followed by ":", digits and ":", and the rest is matched greedily.      *)
(* ok = FALSE is a nil result.                                             *)
(***************************************************************************)
GoSuffixAt(str, p) ==
    /\ p + 3 <= Len(str)
    /\ SubSeq(str, p, p + 3) = <<".", "g", "o", ":">>
    /\ LET d == Run(str, p + 4, Digit)
       IN  d >= 1 /\ p + 4 + d <= Len(str) /\ str[p + 4 + d] = ":"

lineRE(str) ==
    IF \A p \in 1..Len(str) : ~GoSuffixAt(str, p)
    THEN [ok |-> FALSE, g1 |-> <<>>, g2 |-> <<>>, g3 |-> <<>>, g4 |-> <<>>]
    ELSE LET p  == Min({q \in 1..Len(str) : GoSuffixAt(str, q)})
             d  == Run(str, p + 4, Digit)
             a  == p + 5 + d
             d3 == Run(str, a, Digit)
             b  == a + d3
             b2 == IF b <= Len(str) /\ str[b] = ":" THEN b + 1 ELSE b
             w  == Run(str, b2, Space)
         IN  [ok |-> TRUE,
              g1 |-> SubSeq(str, 1, p + 2),
              g2 |-> SubSeq(str, p + 4, p + 3 + d),
              g3 |-> SubSeq(str, a, a + d3 - 1),
              g4 |-> SubSeq(str, b2 + w, Len(str))]

(***************************************************************************)
(* filepath.Rel(basepath, targpath) on clean paths (filepath.Clean leaves  *)
(* every path of the input alphabets unchanged).  err = TRUE is the        *)
(* "can't make relative" error.                                            *)
(***************************************************************************)
IsAbs(path) == path # <<>> /\ path[1] = "/"

PathElems(path) == IF path = <<>> \/ path = <<".">> THEN <<>> ELSE Split(path, "/")

Rel(basepath, targpath) ==
    LET base == IF basepath = <<>> THEN <<".">> ELSE basepath
        targ == IF targpath = <<>> THEN <<".">> ELSE targpath
        B == PathElems(base)
        T == PathElems(targ)
        Same(k) == \A i \in 1..k : B[i] = T[i]
        k == Max({j \in 0..Min({Len(B), Len(T)}) : Same(j)})
        ups == [i \in 1..(Len(B) - k) |-> <<".", ".">>]
    IN  IF targ = base THEN [err |-> FALSE, path |-> <<".">>]
        ELSE IF IsAbs(base) # IsAbs(targ) THEN [err |-> TRUE, path |-> <<>>]
        ELSE [err |-> FALSE, path |-> Join(ups \o SubSeq(T, k + 1, Len(T)), "/")]

(***************************************************************************)
(* Go values.                                                              *)
(***************************************************************************)
\* a []pos that is nil, and one that is not (it may still be empty)
NilSlice == [isNil |-> TRUE, elems |-> <<>>]

Slice(elems) == [isNil |-> FALSE, elems |-> elems]

\* append(slice, x): the result is never nil
AppendSlice(slice, x) == Slice(Append(slice.elems, x))

\* m[k] = v on a map
Put(m, k, v) == [x \in (DOMAIN m) \cup {k} |-> IF x = k THEN v ELSE m[x]]

\* make(map[string][]pos)
EmptyMap == [x \in {} |-> NilSlice]

\* type pos
pos(lineNo, hunkPos) == [lineNo |-> lineNo, hunkPos |-> hunkPos]

(***************************************************************************)
(* The texts the model reads.                                              *)
(***************************************************************************)
FileF == <<"f",".","g","o">>
FileG == <<"g",".","g","o">>
FileH == <<"h",".","g","o">>
Cwd   == <<"/","w">>

\* "+++ b/f.go" and "+++ b/g.go"
HdrF == <<"+","+","+"," ","b","/","f",".","g","o">>
HdrG == <<"+","+","+"," ","b","/","g",".","g","o">>
\* "@@ -1 +1 @@" and "@@ -1,2 +3,2 @@"
Hunk1 == <<"@","@"," ","-","1"," ","+","1"," ","@","@">>
Hunk3 == <<"@","@"," ","-","1",",","2"," ","+","3",",","2"," ","@","@">>
\* " c", "-d", "+a"
CtxLine == <<" ","c">>
DelLine == <<"-","d">>
AddLine == <<"+","a">>
\* "\ No newline", the head of git's "\ No newline at end of file"
NoNewline == <<"\\"," ","N","o"," ","n","e","w","l","i","n","e">>

(***************************************************************************)
(* A line of a patch: its text, which is all the program sees, and the     *)
(* role the line has in the unified diff it belongs to.  A well-formed     *)
(* diff (WellFormedNext) gives every line its role; a line of arbitrary    *)
(* text has the role "text".  An added line whose content is "++ b/g.go"   *)
(* has the text of HdrG and the role "add".                                *)
(***************************************************************************)
DiffLine(role, text) == [role |-> role, text |-> text]

BodyRoles == {"ctx", "del", "add", "nonl"}

Roles(diff) == [i \in 1..Len(diff) |-> diff[i].role]

\* index of the last line of diff with one of the roles, 0 if there is none
LastOf(diff, roles) ==
    Max({0} \cup {i \in 1..Len(diff) : diff[i].role \in roles})

\* the new-file start a hunk header declares: "@@ -a,b +START,d @@"
DeclaredStart(text) ==
    IF text = Hunk1 THEN 1 ELSE 3

(***************************************************************************)
(* The line of the new file that line i of a well-formed diff is: the      *)
(* start its hunk declares, plus the context and added lines between the   *)
(* hunk header and line i.  (A reference computed from the roles, not      *)
(* from the program.)                                                      *)
(***************************************************************************)
HunkOf(diff, i) == Max({h \in 1..i : diff[h].role = "hunk"})

NewLineNo(diff, i) ==
    LET h == HunkOf(diff, i)
    IN  DeclaredStart(diff[h].text)
          + Cardinality({j \in (h + 1)..(i - 1) : diff[j].role \in {"ctx", "add"}})

\* the last line of the new file that the diff's last file section covers so far
CoveredTo(diff) ==
    LET f == LastOf(diff, {"hdr"})
        b == LastOf(diff, {"ctx", "add"})
    IN  IF b > f /\ LastOf(diff, {"hunk"}) > f THEN NewLineNo(diff, b) ELSE 0

\* the files the genuine headers of diff name
HeaderFile(text) == IF text = HdrF THEN FileF ELSE FileG

FilesOf(diff) == {HeaderFile(diff[i].text) : i \in {j \in 1..Len(diff) : diff[j].role = "hdr"}}

(***************************************************************************)
(* The lines that may follow diff in a well-formed unified diff: a file    *)
(* section is a header and hunks, a hunk is a hunk header and a body; a    *)
(* file has one section and hunks come in increasing line order.  The      *)
(* no-newline marker follows the last line of the old or of the new file:  *)
(* after the marker of a deleted line only the added last lines of the new *)
(* file and their marker follow, and after any other marker the section    *)
(* is over.                                                                *)
(***************************************************************************)
WellFormedNext(diff) ==
    LET last == IF diff = <<>> THEN "none" ELSE diff[Len(diff)].role
        inBody == last \in {"hunk", "ctx", "del", "add"}
        markers == {i \in (LastOf(diff, {"hdr"}) + 1)..Len(diff) : diff[i].role = "nonl"}
        ended == markers # {}
        \* the old file has ended and the new one has not
        oldEnded == ended /\ \A i \in markers : diff[i - 1].role = "del"
    IN    {DiffLine("hdr", t) : t \in {h \in {HdrF, HdrG} :
               /\ last \in {"none", "ctx", "del", "add", "nonl"}
               /\ HeaderFile(h) \notin FilesOf(diff)}}
     \cup {DiffLine("hunk", t) : t \in {h \in {Hunk1, Hunk3} :
               /\ last \in {"hdr", "ctx", "del", "add"}
               /\ ~ended
               /\ DeclaredStart(h) > CoveredTo(diff)}}
     \cup (IF inBody /\ ~ended
           THEN {DiffLine("ctx", CtxLine), DiffLine("del", DelLine)} ELSE {})
     \cup (IF (inBody /\ ~ended) \/ (oldEnded /\ last \in {"nonl", "add"})
           THEN {DiffLine("add", AddLine), DiffLine("add", HdrG)} ELSE {})
     \cup (IF last \in {"ctx", "del", "add"} /\ (~ended \/ (oldEnded /\ last = "add"))
           THEN {DiffLine("nonl", NoNewline)} ELSE {})

\* arbitrary text: any line of the alphabet may follow any other
TextLines == {HdrF, Hunk1, CtxLine, DelLine, AddLine}

AnyTextNext(diff) == {DiffLine("text", t) : t \in TextLines}

(***************************************************************************)
(* State.                                                                  *)
(***************************************************************************)
VARIABLES
    pc,        \* where the program is
    caller,    \* who called linesChanged: "Check", or "test" for a direct call
    c,         \* the Checker (a value receiver: Check works on its own copy)
    patch,     \* the lines read from c.Patch so far
    s,         \* linesChanged: state
    changes,   \* linesChanged: the map being built, then Check's linesChanged
    absPath,   \* Check: absPath
    input,     \* the lines read from Check's reader so far
    out,       \* the lines written to Check's writer
    issues,    \* Check: issues
    writeAll,  \* Check: writeAll
    returnErr, \* Check: returnErr, "" for nil
    git,       \* GitPatch: the subprocesses run, newFiles, and what it returned
    first      \* what an earlier call of Check read and gave, for a second call

vars == <<pc, caller, c, patch, s, changes, absPath, input, out, issues,
          writeAll, returnErr, git, first>>

\* Check has not been called before
NoRun == [ran |-> FALSE, patch |-> <<>>, input |-> <<>>, out |-> <<>>,
          issues |-> <<>>, err |-> ""]

\* GitPatch has not been called
NoGit == [log |-> <<>>, newFiles |-> NilSlice, unstaged |-> FALSE,
          ret |-> [patch |-> "nil", newFiles |-> NilSlice, err |-> ""]]

\* the zero value of linesChanged's state
ZeroState == [file |-> <<>>, lineNo |-> 0, hunkPos |-> 0, changes |-> NilSlice]

\* a seeding that gives a new file an empty list in place of the nil marker;
\* C7 tells it from SeedNewFiles
SeedNewFilesEmpty(m, files) ==
    [k \in DOMAIN m \cup {files[i] : i \in 1..Len(files)} |->
        IF k \in DOMAIN m THEN m[k] ELSE Slice(<<>>)]

(***************************************************************************)
(* linesChanged, lines 221-232: the map is seeded with the new files.      *)
(***************************************************************************)
RECURSIVE SeedNewFiles(_, _)
SeedNewFiles(m, files) ==
    IF files = <<>> THEN m
    ELSE SeedNewFiles(Put(m, Head(files), NilSlice), Tail(files))

(***************************************************************************)
(* linesChanged, lines 236-265: one line of the patch.  Each operator      *)
(* takes the state after s.lineNo++ and s.hunkPos++ and gives the state    *)
(* and map after the case; panic says the case aborted the program.        *)
(***************************************************************************)
ScanResult(st, m, panic) == [s |-> st, changes |-> m, panic |-> panic]

\* case strings.HasPrefix(line, "+++ ") && len(line) > 4
scanFileHeader(st, m, line) ==
    IF Len(line) < 6
    THEN ScanResult(st, m, TRUE)   \* line[6:] is out of range
    ELSE ScanResult([file |-> SliceFrom(line, 6), lineNo |-> 0, hunkPos |-> -1,
                     changes |-> Slice(<<>>)],
                    IF ~st.changes.isNil THEN Put(m, st.file, st.changes) ELSE m,
                    FALSE)

\* a hunk header that restarts the line count at 1 whatever start it
\* declares; C22 tells it from scanHunkHeader
scanHunkHeaderFromOne(st, m, line) ==
    ScanResult([st EXCEPT !.lineNo = 0], m, FALSE)

\* a hunk header that keeps the line count when its start does not parse;
\* C27 tells it from scanHunkHeader
scanHunkHeaderLenient(st, m, line) ==
    LET chdr == Split(line, " ")
    IN  IF Len(chdr) < 3
        THEN ScanResult(st, m, TRUE)
        ELSE LET ahdr == Split(chdr[3], ",")
             IN  IF Len(ahdr[1]) < 1
                 THEN ScanResult(st, m, TRUE)
                 ELSE LET cstart == ParseUint(SliceFrom(ahdr[1], 1))
                      IN  IF cstart.err # ""
                          THEN ScanResult(st, m, FALSE)
                          ELSE ScanResult([st EXCEPT !.lineNo = cstart.val - 1], m, FALSE)

\* case strings.HasPrefix(line, "@@ ")
scanHunkHeader(st, m, line) ==
    LET chdr == Split(line, " ")
    IN  IF Len(chdr) < 3
        THEN ScanResult(st, m, TRUE)   \* chdr[2] is out of range
        ELSE LET ahdr == Split(chdr[3], ",")
             IN  IF Len(ahdr[1]) < 1
                 THEN ScanResult(st, m, TRUE)   \* ahdr[0][1:] is out of range
                 ELSE LET cstart == ParseUint(SliceFrom(ahdr[1], 1))
                      IN  IF cstart.err # ""
                          THEN ScanResult(st, m, TRUE)   \* panic(err)
                          ELSE ScanResult([st EXCEPT !.lineNo = cstart.val - 1], m, FALSE)

\* case strings.HasPrefix(line, "-")
scanDeletion(st, m) ==
    ScanResult([st EXCEPT !.lineNo = st.lineNo - 1], m, FALSE)

\* case strings.HasPrefix(line, "+")
scanAddition(st, m) ==
    ScanResult([st EXCEPT !.changes = AppendSlice(st.changes, pos(st.lineNo, st.hunkPos))],
               m, FALSE)

\* the switch of lines 240-265, after the two increments of lines 238-239
scan(st0, m, line) ==
    LET st == [st0 EXCEPT !.lineNo = st0.lineNo + 1, !.hunkPos = st0.hunkPos + 1]
    IN  IF HasPrefix(line, <<"+","+","+"," ">>) /\ Len(line) > 4
             THEN scanFileHeader(st, m, line)
        ELSE IF HasPrefix(line, <<"@","@"," ">>)
             THEN scanHunkHeader(st, m, line)
        ELSE IF HasPrefix(line, <<"-">>)
             THEN scanDeletion(st, m)
        ELSE IF HasPrefix(line, <<"+">>)
             THEN scanAddition(st, m)
        ELSE ScanResult(st, m, FALSE)

\* lines 268-274: the last state is recorded, whatever it is
recordLast(st, m) == Put(m, st.file, st.changes)

(***************************************************************************)
(* Actions of linesChanged.                                                *)
(***************************************************************************)
\* lines 221-232
linesChangedEnter ==
    /\ pc = "linesChanged"
    /\ changes' = SeedNewFiles(EmptyMap, c.NewFiles)
    /\ s' = ZeroState
    /\ pc' = IF c.Patch = "nil" THEN "parsed" ELSE "scan"
    /\ UNCHANGED <<first, caller, c, patch, absPath, input, out, issues, writeAll, returnErr, git>>

\* lines 235-266: scanner.Scan() gives a line
ScanLine(line) ==
    /\ pc = "scan"
    /\ c.Patch # "empty"
    /\ patch' = Append(patch, line)
    /\ LET r == scan(s, changes, line.text)
       IN  IF r.panic
           THEN pc' = "panic" /\ UNCHANGED <<s, changes>>
           ELSE pc' = "scan" /\ s' = r.s /\ changes' = r.changes
    /\ UNCHANGED <<first, caller, c, absPath, input, out, issues, writeAll, returnErr, git>>

\* lines 268-274: scanner.Scan() gives no more lines (the end of the patch,
\* or a read error, which is only reported on stderr)
ScanEnd ==
    /\ pc = "scan"
    /\ c.Patch = "nonempty" => patch # <<>>
    /\ changes' = recordLast(s, changes)
    /\ pc' = "parsed"
    /\ UNCHANGED <<first, caller, c, patch, s, absPath, input, out, issues, writeAll, returnErr, git>>

(***************************************************************************)
(* linesChanged called on its own, as TestLinesChanged does, on a          *)
(* well-formed diff.                                                       *)
(***************************************************************************)
NewFilesChoices == {<<>>, <<FileF>>}

InitParse ==
    /\ pc = "linesChanged"
    /\ caller = "test"
    /\ c \in [Patch : {"reader"}, NewFiles : NewFilesChoices, Regexp : {<<>>},
              AbsPath : {<<>>}, RevisionFrom : {<<>>}, RevisionTo : {<<>>}]
    /\ patch = <<>>
    /\ s = ZeroState
    /\ changes = EmptyMap
    /\ absPath = <<>>
    /\ input = <<>>
    /\ out = <<>>
    /\ issues = <<>>
    /\ writeAll = FALSE
    /\ returnErr = ""
    /\ git = NoGit
    /\ first = NoRun

ScanWellFormed ==
    \E line \in WellFormedNext(patch) :
        /\ Len(patch) < MaxDiffLen
        /\ ScanLine(line)

NextParse ==
    \/ linesChangedEnter
    \/ ScanWellFormed
    \/ ScanEnd

SpecParse == InitParse /\ [][NextParse]_vars

(***************************************************************************)
(* Check, lines 117-191: one line of the reader.                           *)
(***************************************************************************)
\* type Issue
Issue(file, lineNo, colNo, hunkPos, text, message) ==
    [File |-> file, LineNo |-> lineNo, ColNo |-> colNo, HunkPos |-> hunkPos,
     Issue |-> text, Message |-> message]

\* a Check that looks every path up as it is written; C17 tells it from
\* relPath
relPathUnchanged(base, path) == path

\* lines 129-134: an absolute path is made relative to absPath
relPath(base, path) ==
    LET rel == Rel(base, path)
    IN  IF ~rel.err THEN rel.path ELSE path

\* lines 143-151: the optional column number; a parse error is ignored and
\* cno keeps what ParseUint returned with the error
colNo(group) ==
    IF Len(group) > 0 THEN ParseUint(group).val ELSE 0

\* a lookup that takes any entry of the list for the line; C1 tells it from
\* lastWithLineNo
lastOfAnyLineNo(fchanges, lno) ==
    IF fchanges.elems = <<>>
    THEN [changed |-> FALSE, fpos |-> pos(0, 0)]
    ELSE [changed |-> TRUE, fpos |-> fchanges.elems[Len(fchanges.elems)]]

\* lines 164-169: the loop leaves in fpos the last entry with the line number
lastWithLineNo(fchanges, lno) ==
    LET hits == {i \in 1..Len(fchanges.elems) : fchanges.elems[i].lineNo = lno}
    IN  IF hits = {}
        THEN [changed |-> FALSE, fpos |-> pos(0, 0)]
        ELSE [changed |-> TRUE, fpos |-> fchanges.elems[Max(hits)]]

\* an issue that never takes the entry's hunkPos; C5 tells it from makeIssue
makeIssueNoHunkPos(path, fpos, changed, cno, text, msg) ==
    Issue(path, fpos.lineNo, cno, fpos.lineNo, text, msg)

\* lines 172-183: the issue of a line of a changed or new file
makeIssue(path, fpos, changed, cno, text, msg) ==
    Issue(path, fpos.lineNo, cno, IF changed THEN fpos.hunkPos ELSE fpos.lineNo, text, msg)

\* lines 129-187: the issues (none or one) of a line that the pattern matched
issuesOf(m, base, text, line) ==
    LET path == relPath(base, line.g1)
        lno  == ParseUint(line.g2)
    IN  IF lno.err # "" THEN <<>>
        ELSE IF path \notin DOMAIN m THEN <<>>
        ELSE LET found == lastWithLineNo(m[path], lno.val)
             IN  IF found.changed \/ m[path].isNil
                 THEN <<makeIssue(path, found.fpos, found.changed, colNo(line.g3),
                                  text, line.g4)>>
                 ELSE <<>>

\* a writer that puts the newest line first; C6 tells it from Fprintln
FprintlnFirst(w, text) == <<text>> \o w

\* fmt.Fprintln(writer, scanner.Text()): the writer holds one more line
Fprintln(w, text) == Append(w, text)

\* a scan loop that also returns an issue for a line written in write-all
\* mode; C12 tells it from checkLine
checkLineIssueAll(m, base, all, text, w, found) ==
    LET line == lineRE(text)
    IN  IF ~line.ok THEN [out |-> w, issues |-> found]
        ELSE IF all
        THEN [out |-> Fprintln(w, text),
              issues |-> Append(found, Issue(line.g1, 0, 0, 0, text, line.g4))]
        ELSE LET new == issuesOf(m, base, text, line)
             IN  IF new = <<>>
                 THEN [out |-> w, issues |-> found]
                 ELSE [out |-> Fprintln(w, text), issues |-> found \o new]

\* a scan loop that writes the lines the pattern rejects; C25 tells it from
\* checkLine
checkLineWriteRejected(m, base, all, text, w, found) ==
    LET line == lineRE(text)
    IN  IF ~line.ok \/ all THEN [out |-> Fprintln(w, text), issues |-> found]
        ELSE LET new == issuesOf(m, base, text, line)
             IN  IF new = <<>>
                 THEN [out |-> w, issues |-> found]
                 ELSE [out |-> Fprintln(w, text), issues |-> found \o new]

\* lines 118-187: the writer and issues after one line of the reader
checkLine(m, base, all, text, w, found) ==
    LET line == lineRE(text)
    IN  IF ~line.ok THEN [out |-> w, issues |-> found]
        ELSE IF all THEN [out |-> Fprintln(w, text), issues |-> found]
        ELSE LET new == issuesOf(m, base, text, line)
             IN  IF new = <<>>
                 THEN [out |-> w, issues |-> found]
                 ELSE [out |-> Fprintln(w, text), issues |-> found \o new]

(***************************************************************************)
(* The lines of Check's reader.                                            *)
(***************************************************************************)
\* "f.go:1: m", "f.go:2:5:m", "h.go:1:m", "junk", "/w/f.go:1:m" and
\* "f.go:999999999999999999999:m" (a line number of 21 digits, more than
\* 64 bits hold)
InF1   == <<"f",".","g","o",":","1",":"," ","m">>
InF2   == <<"f",".","g","o",":","2",":","5",":","m">>
InH1   == <<"h",".","g","o",":","1",":","m">>
InJunk == <<"j","u","n","k">>
InAbs  == <<"/","w","/","f",".","g","o",":","1",":","m">>
InBig  == <<"f",".","g","o",":","9","9","9","9","9","9","9","9","9","9","9","9",
            "9","9","9","9","9","9","9","9","9",":","m">>

\* "f.go:1:999999999999999999999:m": a column of 21 digits
InBigCol == <<"f",".","g","o",":","1",":","9","9","9","9","9","9","9","9","9","9",
              "9","9","9","9","9","9","9","9","9","9","9",":","m">>

InputLines == {InF1, InF2, InJunk, InAbs, InBig}

\* a pattern regexp.Compile rejects: "("
BadRegexp == <<"(">>

(***************************************************************************)
(* Actions of Check.                                                       *)
(***************************************************************************)
\* lines 94-100: the pattern; a Regexp that does not compile ends Check
\* with nil issues and an error
compileRegexp ==
    IF c.Regexp = BadRegexp
    THEN /\ pc' = "done"
         /\ issues' = <<>>
         /\ returnErr' = "could not parse regexp"
    ELSE /\ pc' = "linesChanged"
         /\ UNCHANGED <<issues, returnErr>>

\* a Check that writes all lines when a revision is given with the patch;
\* C18 tells it from CheckStart
CheckStartByRevision ==
    /\ pc = "Check"
    /\ c.Patch # "nil"
    /\ compileRegexp
    /\ writeAll' = (c.RevisionFrom # <<>>)
    /\ UNCHANGED <<first, caller, c, patch, s, changes, absPath, input, out, git>>

\* lines 75-104 when a patch is supplied
CheckStart ==
    /\ pc = "Check"
    /\ c.Patch # "nil"
    /\ compileRegexp
    /\ UNCHANGED <<first, caller, c, patch, s, changes, absPath, input, out, writeAll, git>>

\* lines 105-113, after linesChanged has returned; os.Getwd may fail
CheckAbsPath(getwdFails) ==
    /\ pc = "parsed"
    /\ caller = "Check"
    /\ IF c.AbsPath # <<>>
       THEN absPath' = c.AbsPath /\ UNCHANGED returnErr
       ELSE IF getwdFails
       THEN absPath' = <<>> /\ returnErr' = "could not get current working directory"
       ELSE absPath' = Cwd /\ UNCHANGED returnErr
    /\ pc' = "lines"
    /\ UNCHANGED <<first, caller, c, patch, s, changes, input, out, issues, writeAll, git>>

\* lines 117-191: scanner.Scan() gives a line
CheckLine(text) ==
    /\ pc = "lines"
    /\ Len(input) < MaxInput
    /\ input' = Append(input, text)
    /\ LET r == checkLine(changes, absPath, writeAll, text, out, issues)
       IN  /\ out' = r.out
           /\ issues' = r.issues
    /\ UNCHANGED <<first, pc, caller, c, patch, s, changes, absPath, writeAll, returnErr, git>>

\* lines 192-195: scanner.Scan() gives no more lines, at the end of the
\* reader or on a read error; Check returns issues and returnErr
CheckEnd(readFails) ==
    /\ pc = "lines"
    /\ returnErr' = IF readFails THEN "error reading standard input" ELSE returnErr
    /\ pc' = "done"
    /\ UNCHANGED <<first, caller, c, patch, s, changes, absPath, input, out, issues, writeAll, git>>

(***************************************************************************)
(* Check with a patch supplied, the patch being arbitrary text.            *)
(***************************************************************************)
Init ==
    /\ pc = "Check"
    /\ caller = "Check"
    /\ c \in [Patch : {"reader"}, NewFiles : NewFilesChoices, Regexp : {<<>>, BadRegexp},
              AbsPath : {<<>>}, RevisionFrom : {<<>>}, RevisionTo : {<<>>}]
    /\ patch = <<>>
    /\ s = ZeroState
    /\ changes = EmptyMap
    /\ absPath = <<>>
    /\ input = <<>>
    /\ out = <<>>
    /\ issues = <<>>
    /\ writeAll = FALSE
    /\ returnErr = ""
    /\ git = NoGit
    /\ first = NoRun

ScanText ==
    \E line \in AnyTextNext(patch) :
        /\ Len(patch) < MaxPatchLen
        /\ ScanLine(line)

Next ==
    \/ CheckStart
    \/ linesChangedEnter
    \/ ScanText
    \/ ScanEnd
    \/ CheckAbsPath(FALSE)
    \/ \E text \in InputLines : CheckLine(text)
    \/ CheckEnd(FALSE)

Spec == Init /\ [][Next]_vars

(***************************************************************************)
(* GitPatch, lines 294-366.  Every exec.Command that is run is appended    *)
(* to git.log; whether it succeeds, and what it prints, is the             *)
(* environment's choice.  The patch GitPatch returns is a reader whose     *)
(* lines linesChanged reads later; "empty" and "nonempty" record what      *)
(* patch.Len() told GitPatch about it.                                     *)
(***************************************************************************)
Rev1 == <<"H","E","A","D","~","1">>
Rev0 == <<"H","E","A","D","~","0">>
DirD == <<"d","/">>

\* what "git ls-files -o" may print, split at the newlines
LsOutputs == {<<>>, <<FileH, <<>>>>, <<DirD, <<>>>>}

\* lines 305-318: the untracked files, without the empty lines and directories
RECURSIVE untracked(_, _)
untracked(files, lines) ==
    IF lines = <<>> THEN files
    ELSE IF Len(Head(lines)) = 0 \/ Head(lines)[Len(Head(lines))] = "/"
    THEN untracked(files, Tail(lines))
    ELSE untracked(AppendSlice(files, Head(lines)), Tail(lines))

Ran(cmd) == git' = [git EXCEPT !.log = Append(git.log, cmd)]

\* GitPatch returns (patch, newFiles, err)
GitReturn(cmd, p, files, err) ==
    /\ git' = [git EXCEPT !.log = Append(git.log, cmd),
                          !.ret = [patch |-> p, newFiles |-> files, err |-> err]]
    /\ pc' = "gitReturned"

\* lines 298-302: git status
GitStatus(ok) ==
    /\ pc = "GitPatch"
    /\ IF ok
       THEN Ran(<<"git", "status">>) /\ pc' = "gitLsFiles"
       ELSE GitReturn(<<"git", "status">>, "nil", NilSlice, "")
    /\ UNCHANGED <<first, caller, c, patch, s, changes, absPath, input, out, issues,
                   writeAll, returnErr>>

\* a git ls-files that is run again when it fails; C23 tells it from
\* GitLsFiles
GitLsFilesRetry(ok, lines) ==
    /\ pc = "gitLsFiles"
    /\ IF ok
       THEN /\ git' = [git EXCEPT !.log = Append(git.log, <<"git", "ls-files", "-o">>),
                                  !.newFiles = untracked(NilSlice, lines)]
            /\ pc' = IF c.RevisionFrom # <<>> THEN "gitDiffRevisions" ELSE "gitDiff"
       ELSE /\ Len(git.log) < 3
            /\ Ran(<<"git", "ls-files", "-o">>)
            /\ pc' = "gitLsFiles"
    /\ UNCHANGED <<first, caller, c, patch, s, changes, absPath, input, out, issues,
                   writeAll, returnErr>>

\* lines 304-320: git ls-files -o, then the choice between the revisions
\* and the working tree
GitLsFiles(ok, lines) ==
    /\ pc = "gitLsFiles"
    /\ IF ok
       THEN /\ git' = [git EXCEPT !.log = Append(git.log, <<"git", "ls-files", "-o">>),
                                  !.newFiles = untracked(NilSlice, lines)]
            /\ pc' = IF c.RevisionFrom # <<>> THEN "gitDiffRevisions" ELSE "gitDiff"
       ELSE GitReturn(<<"git", "ls-files", "-o">>, "nil", NilSlice,
                      "error executing git ls-files")
    /\ UNCHANGED <<first, caller, c, patch, s, changes, absPath, input, out, issues,
                   writeAll, returnErr>>

\* a git diff of revisions that always returns the untracked files; C15
\* tells it from GitDiffRevisions
GitDiffRevisionsWithFiles(ok) ==
    /\ pc = "gitDiffRevisions"
    /\ LET cmd == IF c.RevisionTo # <<>>
                  THEN <<"git", "diff", c.RevisionFrom, c.RevisionTo>>
                  ELSE <<"git", "diff", c.RevisionFrom>>
       IN  IF ~ok
           THEN GitReturn(cmd, "nil", NilSlice, "error executing git diff revisions")
           ELSE GitReturn(cmd, "reader", git.newFiles, "")
    /\ UNCHANGED <<first, caller, c, patch, s, changes, absPath, input, out, issues,
                   writeAll, returnErr>>

\* lines 320-336: git diff revisionFrom [revisionTo]
GitDiffRevisions(ok) ==
    /\ pc = "gitDiffRevisions"
    /\ LET cmd == IF c.RevisionTo # <<>>
                  THEN <<"git", "diff", c.RevisionFrom, c.RevisionTo>>
                  ELSE <<"git", "diff", c.RevisionFrom>>
       IN  IF ~ok
           THEN GitReturn(cmd, "nil", NilSlice, "error executing git diff revisions")
           ELSE IF c.RevisionTo = <<>>
           THEN GitReturn(cmd, "reader", git.newFiles, "")
           ELSE GitReturn(cmd, "reader", NilSlice, "")
    /\ UNCHANGED <<first, caller, c, patch, s, changes, absPath, input, out, issues,
                   writeAll, returnErr>>

\* a git diff that falls back to HEAD~ whenever nothing is unstaged, untracked
\* files or not; C16 tells it from GitDiff
GitDiffIgnoringFiles(ok, unstaged) ==
    /\ pc = "gitDiff"
    /\ IF ~ok
       THEN GitReturn(<<"git", "diff">>, "nil", NilSlice, "error executing git diff")
       ELSE IF unstaged
       THEN /\ git' = [git EXCEPT !.log = Append(git.log, <<"git", "diff">>),
                                  !.unstaged = TRUE,
                                  !.ret = [patch |-> "nonempty",
                                           newFiles |-> git.newFiles, err |-> ""]]
            /\ pc' = "gitReturned"
       ELSE Ran(<<"git", "diff">>) /\ pc' = "gitDiffHead"
    /\ UNCHANGED <<first, caller, c, patch, s, changes, absPath, input, out, issues,
                   writeAll, returnErr>>

\* lines 338-353: git diff writes to the buffer patch; unstaged is
\* patch.Len() > 0
GitDiff(ok, unstaged) ==
    /\ pc = "gitDiff"
    /\ IF ~ok
       THEN GitReturn(<<"git", "diff">>, "nil", NilSlice, "error executing git diff")
       ELSE IF unstaged \/ ~git.newFiles.isNil
       THEN /\ git' = [git EXCEPT !.log = Append(git.log, <<"git", "diff">>),
                                  !.unstaged = unstaged,
                                  !.ret = [patch |-> IF unstaged THEN "nonempty"
                                                     ELSE "empty",
                                           newFiles |-> git.newFiles, err |-> ""]]
            /\ pc' = "gitReturned"
       ELSE /\ git' = [git EXCEPT !.log = Append(git.log, <<"git", "diff">>),
                                  !.unstaged = unstaged]
            /\ pc' = "gitDiffHead"
    /\ UNCHANGED <<first, caller, c, patch, s, changes, absPath, input, out, issues,
                   writeAll, returnErr>>

\* a git diff HEAD~ that is run once more when it fails; C24 tells it from
\* GitDiffHead
GitDiffHeadAgain(ok) ==
    /\ pc = "gitDiffHead"
    /\ IF ~ok /\ Len(git.log) < 4
       THEN Ran(<<"git", "diff", "HEAD~">>) /\ pc' = "gitDiffHead"
       ELSE IF ~ok
       THEN GitReturn(<<"git", "diff", "HEAD~">>, "nil", NilSlice,
                      "error executing git diff HEAD~")
       ELSE GitReturn(<<"git", "diff", "HEAD~">>, "reader", NilSlice, "")
    /\ UNCHANGED <<first, caller, c, patch, s, changes, absPath, input, out, issues,
                   writeAll, returnErr>>

\* lines 355-365: git diff HEAD~, written to the buffer that the empty
\* git diff left empty
GitDiffHead(ok) ==
    /\ pc = "gitDiffHead"
    /\ IF ~ok
       THEN GitReturn(<<"git", "diff", "HEAD~">>, "nil", NilSlice,
                      "error executing git diff HEAD~")
       ELSE GitReturn(<<"git", "diff", "HEAD~">>, "reader", NilSlice, "")
    /\ UNCHANGED <<first, caller, c, patch, s, changes, absPath, input, out, issues,
                   writeAll, returnErr>>

\* lines 75-81 when no patch is supplied: Check calls GitPatch
CheckCallGitPatch ==
    /\ pc = "Check"
    /\ c.Patch = "nil"
    /\ pc' = "GitPatch"
    /\ UNCHANGED <<first, caller, c, patch, s, changes, absPath, input, out, issues,
                   writeAll, returnErr, git>>

\* a Check that does not write all lines without a patch; C10 tells it from
\* afterGitPatch
afterGitPatchStrict(ret) ==
    [writeAll |-> ret.err # "",
     returnErr |-> IF ret.patch = "nil" THEN "no version control repository found"
                   ELSE IF ret.err # "" THEN "could not read git repo" ELSE ""]

\* a Check that writes all lines without a patch and reports no error; C11
\* tells it from afterGitPatch
afterGitPatchSilent(ret) ==
    [writeAll |-> ret.err # "" \/ ret.patch = "nil",
     returnErr |-> IF ret.err # "" THEN "could not read git repo" ELSE ""]

\* lines 82-90: writeAll and returnErr after GitPatch returned ret
afterGitPatch(ret) ==
    LET all1 == ret.err # ""
        err1 == IF ret.err # "" THEN "could not read git repo" ELSE ""
    IN  IF ret.patch = "nil"
        THEN [writeAll |-> TRUE, returnErr |-> "no version control repository found"]
        ELSE [writeAll |-> all1, returnErr |-> err1]

\* lines 81-104 when GitPatch has returned
CheckGitReturn ==
    /\ pc = "gitReturned"
    /\ c' = [c EXCEPT !.Patch = git.ret.patch, !.NewFiles = git.ret.newFiles.elems]
    /\ writeAll' = afterGitPatch(git.ret).writeAll
    /\ IF c.Regexp = BadRegexp
       THEN /\ pc' = "done"
            /\ issues' = <<>>
            /\ returnErr' = "could not parse regexp"
       ELSE /\ pc' = "linesChanged"
            /\ issues' = issues
            /\ returnErr' = afterGitPatch(git.ret).returnErr
    /\ UNCHANGED <<first, caller, patch, s, changes, absPath, input, out, git>>

(***************************************************************************)
(* Check with no patch supplied: the patch comes from GitPatch.            *)
(***************************************************************************)
InitGit ==
    /\ pc = "Check"
    /\ caller = "Check"
    /\ c \in [Patch : {"nil"}, NewFiles : {<<>>}, Regexp : {<<>>, BadRegexp},
              AbsPath : {<<>>}, RevisionFrom : {<<>>, Rev1}, RevisionTo : {<<>>, Rev0}]
    /\ patch = <<>>
    /\ s = ZeroState
    /\ changes = EmptyMap
    /\ absPath = <<>>
    /\ input = <<>>
    /\ out = <<>>
    /\ issues = <<>>
    /\ writeAll = FALSE
    /\ returnErr = ""
    /\ git = NoGit
    /\ first = NoRun

\* the lines of a patch that git printed, and of the reader
GitTextLines == {HdrF, AddLine}

GitInputLines == {InF1, InH1, InJunk, InBig, InBigCol}

ScanGitText ==
    \E text \in GitTextLines :
        /\ Len(patch) < MaxGitPatchLen
        /\ ScanLine(DiffLine("text", text))

NextGit ==
    \/ CheckCallGitPatch
    \/ \E ok \in BOOLEAN : GitStatus(ok)
    \/ \E ok \in BOOLEAN, lines \in LsOutputs : GitLsFiles(ok, lines)
    \/ \E ok \in BOOLEAN : GitDiffRevisions(ok)
    \/ \E ok \in BOOLEAN, unstaged \in BOOLEAN : GitDiff(ok, unstaged)
    \/ \E ok \in BOOLEAN : GitDiffHead(ok)
    \/ CheckGitReturn
    \/ linesChangedEnter
    \/ ScanGitText
    \/ ScanEnd
    \/ \E getwdFails \in BOOLEAN : CheckAbsPath(getwdFails)
    \/ \E text \in GitInputLines : CheckLine(text)
    \/ \E readFails \in BOOLEAN : CheckEnd(readFails)

SpecGit == InitGit /\ [][NextGit]_vars

(***************************************************************************)
(* What a well-formed diff says, read from the roles of its lines.  These  *)
(* are the references the claims about linesChanged are stated against.    *)
(***************************************************************************)
RECURSIVE Sorted(_)
Sorted(S) == IF S = {} THEN <<>> ELSE <<Min(S)>> \o Sorted(S \ {Min(S)})

\* the indexes of the genuine file headers of diff
HeaderIdx(diff) == {i \in 1..Len(diff) : diff[i].role = "hdr"}

\* the last line of the file section that the header at h opens
SectionEnd(diff, h) ==
    Min({Len(diff)} \cup {i - 1 : i \in {j \in HeaderIdx(diff) : j > h}})

\* the added lines of the section, top to bottom
AdditionsOf(diff, h) ==
    Sorted({i \in (h + 1)..SectionEnd(diff, h) : diff[i].role = "add"})

\* the file's first @@ header
FirstHunk(diff, h) ==
    Min({i \in (h + 1)..SectionEnd(diff, h) : diff[i].role = "hunk"})

\* the diff lines after the file's first @@ header, up to and including line i
PositionInDiff(diff, h, i) == i - FirstHunk(diff, h)

\* the lineNo, and the hunkPos, of the entries of a file's list
LineNos(slice) == [k \in 1..Len(slice.elems) |-> slice.elems[k].lineNo]

HunkPoss(slice) == [k \in 1..Len(slice.elems) |-> slice.elems[k].hunkPos]

\* linesChanged has returned its map
Returned == pc \in {"parsed", "lines", "done"}

(***************************************************************************)
(* C2.  For a diff whose hunk bodies hold only context, deletion and       *)
(* addition lines, the entries linesChanged records for a file are its     *)
(* additions, each with lineNo equal to the line's number in the new       *)
(* file: the hunk's declared new-start plus the context and addition       *)
(* lines before it in the hunk.                                            *)
(* Violated: an added line whose content starts with "++ " is read as a    *)
(* file header (C29).                                                      *)
(***************************************************************************)
C2_LineNoIsNewFileLine ==
    (Returned /\ caller = "test" /\ \A i \in 1..Len(patch) : patch[i].role # "nonl")
    => \A h \in HeaderIdx(patch) :
          LET f == HeaderFile(patch[h].text)
              adds == AdditionsOf(patch, h)
          IN  /\ f \in DOMAIN changes
              /\ LineNos(changes[f]) = [k \in 1..Len(adds) |-> NewLineNo(patch, adds[k])]

(***************************************************************************)
(* C3.  The entries linesChanged records for a file are its additions,     *)
(* each with hunkPos equal to the number of diff lines after the file's    *)
(* first @@ header up to and including the addition; the count restarts    *)
(* at every file header.                                                   *)
(* Violated: an added line whose content starts with "++ " is read as a    *)
(* file header and restarts the count (C29).                               *)
(***************************************************************************)
C3_HunkPosCountsFromFirstHunk ==
    (Returned /\ caller = "test")
    => \A h \in HeaderIdx(patch) :
          LET f == HeaderFile(patch[h].text)
              adds == AdditionsOf(patch, h)
          IN  /\ f \in DOMAIN changes
              /\ HunkPoss(changes[f]) = [k \in 1..Len(adds) |-> PositionInDiff(patch, h, adds[k])]

(***************************************************************************)
(* What the lines of Check's reader say, read off the lines themselves:    *)
(* whether the line has the shape path.go:line[:col]: message, the path    *)
(* relative to the working directory /w, the line and column numbers, the  *)
(* message.                                                                *)
(***************************************************************************)
\* "g.go:1:m"
InG1 == <<"g",".","g","o",":","1",":","m">>

RefMatchesPattern(text) == text \in {InF1, InF2, InG1, InH1, InAbs, InBig, InBigCol}

RefLineNoParses(text) == text \in {InF1, InF2, InG1, InH1, InAbs, InBigCol}

RefPath(text) ==
    IF text = InH1 THEN FileH ELSE IF text = InG1 THEN FileG ELSE FileF

RefLineNo(text) == IF text = InF2 THEN 2 ELSE 1

RefColNo(text) == IF text = InF2 THEN 5 ELSE 0

RefMessage(text) == <<"m">>

\* the file paths of a list, and the lines of a sequence, as sets
Elems(seq) == {seq[i] : i \in 1..Len(seq)}

\* Check is reading its input, or has returned, with a patch available
Matching == pc \in {"lines", "done"} /\ ~writeAll

\* the condition of C1 on an input line
InChangedMap(text) ==
    /\ RefMatchesPattern(text)
    /\ RefLineNoParses(text)
    /\ RefPath(text) \in DOMAIN changes
    /\ \/ changes[RefPath(text)].isNil
       \/ \E k \in 1..Len(changes[RefPath(text)].elems) :
             changes[RefPath(text)].elems[k].lineNo = RefLineNo(text)

\* the input lines that satisfy the condition of C1, in input order
MatchedInput == SelectSeq(input, InChangedMap)

(***************************************************************************)
(* C1.  With a patch available, the lines written and the issues returned  *)
(* are those of exactly the input lines that match the pattern, whose      *)
(* line number parses, whose normalized path is a key of the changed-line  *)
(* map, and whose file is marked wholly new or has an entry with that      *)
(* line number; every other input line gives no output and no issue.       *)
(***************************************************************************)
C1_WrittenIffInChangedMap ==
    Matching =>
        /\ \A t \in Elems(input) :
              /\ t \in Elems(out) <=> InChangedMap(t)
              /\ (\E j \in 1..Len(issues) : issues[j].Issue = t) <=> InChangedMap(t)
        /\ Len(out) = Len(MatchedInput)
        /\ Len(issues) = Len(MatchedInput)

\* a line of an unchanged line number is skipped and a changed one is written
C1_Witness ==
    /\ pc = "done"
    /\ ~writeAll
    /\ input = <<InF2, InF1>>
    /\ FileF \in DOMAIN changes
    /\ LineNos(changes[FileF]) = <<1>>
    /\ out = <<InF1>>
    /\ Len(issues) = 1

(***************************************************************************)
(* C4.  The issue of an input line matched because its file is marked      *)
(* wholly new has LineNo equal to the line number parsed from the line,    *)
(* and HunkPos equal to that line number.                                  *)
(* Violated: no entry is found for a wholly new file, and the issue takes  *)
(* LineNo and HunkPos from the zero value of fpos.                         *)
(***************************************************************************)
C4_NewFileIssueHasLineNo ==
    Matching =>
        \A j \in 1..Len(issues) :
            (issues[j].File \in DOMAIN changes /\ changes[issues[j].File].isNil)
            => /\ issues[j].LineNo = RefLineNo(issues[j].Issue)
               /\ issues[j].HunkPos = RefLineNo(issues[j].Issue)

\* the hunkPos of the entry of a list whose lineNo is n: the loop of lines
\* 164-169 keeps the last one
EntryHunkPos(slice, n) ==
    LET hits == {k \in 1..Len(slice.elems) : slice.elems[k].lineNo = n}
    IN  slice.elems[Max(hits)].hunkPos

C6_WrittenInInputOrder ==
    [][/\ \/ out' = out /\ issues' = issues
          \/ /\ Len(input') = Len(input) + 1
             /\ out' = Append(out, input'[Len(input')])
             /\ Len(issues') = Len(issues) + 1
             /\ SubSeq(issues', 1, Len(issues)) = issues
             /\ issues'[Len(issues')].Issue = input'[Len(input')]
       /\ Matching' => out' = MatchedInput']_vars

\* two matched lines written in input order, which is not sorted order
C6_Witness ==
    /\ pc = "done"
    /\ ~writeAll
    /\ input = <<InF2, InF1>>
    /\ out = <<InF2, InF1>>
    /\ Len(issues) = 2
    /\ issues[1].Issue = InF2
    /\ issues[2].Issue = InF1

\* a line of the diff text that begins with "+++ " and names path
NamedByHeader(text, path) ==
    \/ text = HdrF /\ path = FileF
    \/ text = HdrG /\ path = FileG

\* an input line is matched: written, and returned as an issue
IsMatched(t) ==
    /\ t \in Elems(out)
    /\ \E j \in 1..Len(issues) : issues[j].Issue = t

C9_KeysAreMentionedFiles ==
    (Returned /\ caller = "Check") =>
        /\ \A k \in DOMAIN changes :
              \/ k \in Elems(c.NewFiles)
              \/ \E i \in 1..Len(patch) : NamedByHeader(patch[i].text, k)
        /\ \A t \in Elems(input) :
              (/\ RefMatchesPattern(t)
               /\ RefPath(t) \notin Elems(c.NewFiles)
               /\ \A i \in 1..Len(patch) : ~NamedByHeader(patch[i].text, RefPath(t)))
              => /\ t \notin Elems(out)
                 /\ \A j \in 1..Len(issues) : issues[j].Issue # t

\* the roles of the lines of the section that the header at h opens
SectionRoles(diff, h) == {diff[i].role : i \in (h + 1)..SectionEnd(diff, h)}

\* Check, reading text against the map m, writes nothing and returns no issue
Unmatched(m, text) ==
    checkLine(m, Cwd, FALSE, text, <<>>, <<>>) = [out |-> <<>>, issues |-> <<>>]

(***************************************************************************)
(* C8.  A file whose section of the diff holds deletions and no addition   *)
(* is a key of the changed-line map with an empty list that is not the     *)
(* wholly-new marker, and no input line that references the file is        *)
(* matched.                                                                *)
(* Violated: an added line of a later file whose content starts with       *)
(* "++ " and names the file is read as its file header, and the additions  *)
(* after it are recorded for the file (C29).                               *)
(***************************************************************************)
C8_DeletionsOnlyFileHasEmptyList ==
    (Returned /\ caller = "test") =>
        \A h \in HeaderIdx(patch) :
            LET f == HeaderFile(patch[h].text)
            IN  ("del" \in SectionRoles(patch, h) /\ "add" \notin SectionRoles(patch, h))
                => /\ f \in DOMAIN changes
                   /\ changes[f] = Slice(<<>>)
                   /\ \A t \in {InF1, InF2, InG1, InAbs} :
                         RefPath(t) = f => Unmatched(changes, t)

\* GitPatch has returned to Check after git status failed: no repository
NoRepository ==
    /\ git.log = <<<<"git", "status">>>>
    /\ pc \in {"linesChanged", "scan", "parsed", "lines", "done"}

(***************************************************************************)
(* C10.  When no patch is supplied and GitPatch returns a nil patch, nil   *)
(* new files and a nil error, Check is in write-all mode: what it has      *)
(* written is exactly the input lines that match the pattern, verbatim     *)
(* and in input order, and the error it returns is not nil.                *)
(***************************************************************************)
C10_WriteAllWithoutRepository ==
    NoRepository =>
        /\ git.ret = [patch |-> "nil", newFiles |-> NilSlice, err |-> ""]
        /\ writeAll
        /\ out = SelectSeq(input, RefMatchesPattern)
        /\ pc = "done" => returnErr # ""

\* the line the pattern rejects is skipped, the other one is written
C10_Witness ==
    /\ NoRepository
    /\ pc = "done"
    /\ input = <<InJunk, InH1>>
    /\ out = <<InH1>>
    /\ returnErr = "no version control repository found"

(***************************************************************************)
(* C11.  Whenever Check returns a nil error, the issues it returns and the *)
(* lines it has written correspond one to one and in order: both           *)
(* sequences have the same length and the i-th written line is the Issue   *)
(* text of the i-th issue.                                                 *)
(***************************************************************************)
C11_NilErrorIssuesAreOutput ==
    (pc = "done" /\ returnErr = "") =>
        /\ Len(issues) = Len(out)
        /\ \A i \in 1..Len(out) : issues[i].Issue = out[i]

\* an untracked file and an added line give two issues, and no error
C11_Witness ==
    /\ pc = "done"
    /\ returnErr = ""
    /\ git.log # <<>>
    /\ out = <<InH1, InF1>>
    /\ Len(issues) = 2
    /\ issues[1].File = FileH
    /\ issues[2].File = FileF

(***************************************************************************)
(* C12 as stated.  When resolution fails and Check falls back to write-all *)
(* mode, the issues it returns hold an Issue for every line written.       *)
(* Violated: in write-all mode a line is written and the loop continues    *)
(* before any issue is made.                                               *)
(***************************************************************************)
C12_WriteAllReturnsIssues ==
    (pc = "done" /\ writeAll) =>
        \A i \in 1..Len(out) : \E j \in 1..Len(issues) : issues[j].Issue = out[i]

(***************************************************************************)
(* C12, amended.  When resolution fails and Check falls back to write-all  *)
(* mode, it returns no issue at all, whatever it has written: the caller   *)
(* receives the error and the written lines only.                          *)
(***************************************************************************)
C12_WriteAllReturnsNoIssue ==
    writeAll => /\ issues = <<>>
                /\ pc = "done" => returnErr # ""

\* git diff failed: the line is written and no issue is returned for it
C12_Witness ==
    /\ pc = "done"
    /\ writeAll
    /\ git.ret.err = "error executing git diff"
    /\ out = <<InF1>>
    /\ issues = <<>>
    /\ returnErr # ""

(***************************************************************************)
(* C13.  When GitPatch fails with the error of a subprocess run after git  *)
(* status succeeded, the error Check returns is the one that carries that  *)
(* failure, "could not read git repo: ...", and it differs from the error  *)
(* returned when no repository was found.                                  *)
(* Violated: GitPatch returns a nil patch with its error, so the test of   *)
(* c.Patch == nil that follows replaces the error by "no version control   *)
(* repository found".                                                      *)
(***************************************************************************)
C13_SubprocessErrorIsReturned ==
    (pc = "done" /\ git.ret.err # "" /\ c.Regexp = <<>>) =>
        /\ returnErr # "no version control repository found"
        /\ returnErr \in {"could not read git repo",
                          "could not get current working directory",
                          "error reading standard input"}

\* GitPatch has returned to Check
GitPatchReturned ==
    /\ git.log # <<>>
    /\ pc \in {"gitReturned", "linesChanged", "scan", "parsed", "lines", "done"}

(***************************************************************************)
(* C14.  GitPatch called with an empty revisionFrom and a non-empty        *)
(* revisionTo returns a non-nil error, and runs no subprocess.             *)
(* Violated: GitPatch never compares the two revisions; it runs git        *)
(* status, git ls-files and git diff as if no revision were given.         *)
(***************************************************************************)
C14_RevisionToAloneIsAnError ==
    (c.RevisionFrom = <<>> /\ c.RevisionTo # <<>>) =>
        /\ git.log = <<>>
        /\ pc \in {"gitReturned", "linesChanged", "scan", "parsed", "lines", "done"}
              => git.ret.err # ""

\* the subprocesses GitPatch has run, as a set
Commands == Elems(git.log)

C16_UncommittedBeforeLastCommit ==
    (/\ GitPatchReturned
     /\ c.RevisionFrom = <<>>
     /\ c.RevisionTo = <<>>
     /\ git.ret.patch # "nil") =>
        /\ git.ret.err = ""
        /\ IF git.unstaged \/ ~git.newFiles.isNil
           THEN /\ git.log = <<<<"git", "status">>, <<"git", "ls-files", "-o">>,
                               <<"git", "diff">>>>
                /\ git.ret.patch = IF git.unstaged THEN "nonempty" ELSE "empty"
                /\ git.ret.newFiles = git.newFiles
           ELSE /\ git.log = <<<<"git", "status">>, <<"git", "ls-files", "-o">>,
                               <<"git", "diff">>, <<"git", "diff", "HEAD~">>>>
                /\ git.ret.patch = "reader"
                /\ git.ret.newFiles = NilSlice

\* nothing unstaged and an untracked file: the empty git diff is returned
C16_Witness ==
    /\ GitPatchReturned
    /\ c.RevisionFrom = <<>>
    /\ c.RevisionTo = <<>>
    /\ ~git.unstaged
    /\ git.ret = [patch |-> "empty", newFiles |-> Slice(<<FileH>>), err |-> ""]

(***************************************************************************)
(* Check with a supplied patch and the other fields of Checker set or not: *)
(* the base directory is AbsPath, "/v", or the working directory, "/w",    *)
(* and the revisions are given or not.                                     *)
(***************************************************************************)
DirV == <<"/","v">>

\* "/v/f.go:1:m"
InAbsV == <<"/","v","/","f",".","g","o",":","1",":","m">>

AbsInputLines == {InF1, InAbs, InAbsV}

InitFields ==
    /\ pc = "Check"
    /\ caller = "Check"
    /\ c \in [Patch : {"reader"}, NewFiles : NewFilesChoices, Regexp : {<<>>, BadRegexp},
              AbsPath : {<<>>, DirV}, RevisionFrom : {<<>>, Rev1},
              RevisionTo : {<<>>, Rev0}]
    /\ patch = <<>>
    /\ s = ZeroState
    /\ changes = EmptyMap
    /\ absPath = <<>>
    /\ input = <<>>
    /\ out = <<>>
    /\ issues = <<>>
    /\ writeAll = FALSE
    /\ returnErr = ""
    /\ git = NoGit
    /\ first = NoRun

NextFields ==
    \/ CheckStart
    \/ linesChangedEnter
    \/ ScanGitText
    \/ ScanEnd
    \/ CheckAbsPath(FALSE)
    \/ \E text \in AbsInputLines : CheckLine(text)
    \/ CheckEnd(FALSE)

SpecFields == InitFields /\ [][NextFields]_vars

\* the base directory of C17
BaseDir == IF c.AbsPath # <<>> THEN c.AbsPath ELSE Cwd

\* the path of the input line is absolute and lies under base
AbsUnder(text, base) ==
    \/ text = InAbs /\ base = Cwd
    \/ text = InAbsV /\ base = DirV

\* Check, with the map it has, would match the line
WouldMatch(text) == ~Unmatched(changes, text)

(***************************************************************************)
(* C17.  With base directory B (Checker.AbsPath, an absolute directory, or *)
(* the working directory when it is unset), an input line whose path is    *)
(* absolute and under B is matched exactly when the same line with the     *)
(* B-relative path would be, its Issue has the B-relative path as File,    *)
(* and it is written with its absolute path; a line with a relative path   *)
(* is looked up under that path as it is.                                  *)
(***************************************************************************)
C17_AbsolutePathMadeRelative ==
    Matching =>
        /\ \A t \in Elems(input) :
              AbsUnder(t, BaseDir) =>
                  /\ t \in Elems(out) <=> WouldMatch(InF1)
                  /\ \A j \in 1..Len(issues) :
                        issues[j].Issue = t => issues[j].File = FileF
        /\ InF1 \in Elems(input) =>
              /\ InF1 \in Elems(out) <=>
                    /\ FileF \in DOMAIN changes
                    /\ \/ changes[FileF].isNil
                       \/ 1 \in Elems(LineNos(changes[FileF]))
              /\ \A j \in 1..Len(issues) :
                    issues[j].Issue = InF1 => issues[j].File = FileF
        /\ \A j \in 1..Len(issues) : issues[j].Issue = out[j]

\* under AbsPath "/v", "/v/f.go:1:m" is matched against f.go of the diff, and
\* "/w/f.go:1:m" is not
C17_Witness ==
    /\ pc = "done"
    /\ c.AbsPath = DirV
    /\ FileF \in DOMAIN changes
    /\ ~changes[FileF].isNil
    /\ input = <<InAbsV, InAbs>>
    /\ out = <<InAbsV>>
    /\ Len(issues) = 1
    /\ issues[1].File = FileF

(***************************************************************************)
(* Check with a supplied patch as a function of the new files, the         *)
(* pattern, the base directory, the lines of the patch and the lines of    *)
(* the reader: lines 92-196 run from start to end.                         *)
(***************************************************************************)
RECURSIVE scanAll(_, _, _)
scanAll(st, m, lines) ==
    IF lines = <<>> THEN ScanResult(st, m, FALSE)
    ELSE LET r == scan(st, m, Head(lines))
         IN  IF r.panic THEN r ELSE scanAll(r.s, r.changes, Tail(lines))

linesChangedOf(newFiles, lines) ==
    LET r == scanAll(ZeroState, SeedNewFiles(EmptyMap, newFiles), lines)
    IN  recordLast(r.s, r.changes)

RECURSIVE checkAll(_, _, _, _, _)
checkAll(m, base, lines, w, found) ==
    IF lines = <<>> THEN [out |-> w, issues |-> found]
    ELSE LET r == checkLine(m, base, FALSE, Head(lines), w, found)
         IN  checkAll(m, base, Tail(lines), r.out, r.issues)

CheckOf(newFiles, regexp, base, patchLines, inputLines) ==
    IF regexp = BadRegexp
    THEN [out |-> <<>>, issues |-> <<>>, err |-> "could not parse regexp"]
    ELSE LET r == checkAll(linesChangedOf(newFiles, patchLines),
                           IF base # <<>> THEN base ELSE Cwd,
                           inputLines, <<>>, <<>>)
         IN  [out |-> r.out, issues |-> r.issues, err |-> ""]

\* the text of the lines read from the patch
PatchText == [i \in 1..Len(patch) |-> patch[i].text]

(***************************************************************************)
(* C18.  When Checker.Patch is supplied, Check never calls GitPatch and no *)
(* subprocess runs, write-all mode is never entered, the Checker and its   *)
(* NewFiles stay as supplied, and what Check writes and returns is the     *)
(* same with and without RevisionFrom and RevisionTo: it is a function of  *)
(* the new files, the pattern, the base directory, the patch and the       *)
(* input alone.                                                            *)
(***************************************************************************)
C18_SuppliedPatchNeedsNoGit ==
    /\ [](/\ git = NoGit
          /\ pc \in {"Check", "linesChanged", "scan", "parsed", "lines", "done"}
          /\ ~writeAll
          /\ pc \in {"scan", "parsed", "lines"}
                => \A f \in Elems(c.NewFiles) : f \in DOMAIN changes
          /\ pc = "done"
                => [out |-> out, issues |-> issues, err |-> returnErr]
                   = CheckOf(c.NewFiles, c.Regexp, c.AbsPath, PatchText, input))
    /\ [][c' = c]_vars

\* both revisions are given, and the new file's line is matched all the same
C18_Witness ==
    /\ pc = "done"
    /\ c.RevisionFrom = Rev1
    /\ c.RevisionTo = Rev0
    /\ c.NewFiles = <<FileF>>
    /\ patch = <<>>
    /\ out = <<InF1>>
    /\ git = NoGit

(***************************************************************************)
(* The revgrep command, cmd/revgrep/main.go lines 39-46: the exit status   *)
(* after Check has returned issues and returnErr.                          *)
(***************************************************************************)
exitStatus ==
    IF returnErr # "" THEN 1
    ELSE IF Len(issues) > 0 THEN 1
    ELSE 0

(***************************************************************************)
(* C19.  The revgrep command exits with status 1 if an issue matched and   *)
(* with status 0 otherwise, whatever Check returned.                       *)
(* Violated: the command exits with status 1 whenever Check returns an     *)
(* error, with or without issues.                                          *)
(***************************************************************************)
C19_ExitStatusTellsIssues ==
    pc = "done" => exitStatus = IF Len(issues) > 0 THEN 1 ELSE 0

(***************************************************************************)
(* Check called a second time with the same Checker, a patch of the same   *)
(* text and a reader of the same lines.  The variables of lines 74-79 and  *)
(* 104-116 are local to a call: the second call starts from their zero     *)
(* values.                                                                 *)
(***************************************************************************)
\* a second call that appends to the issues of the first, as if they were
\* kept in the Checker; C20 tells it from CheckAgain
CheckAgainKeepingIssues ==
    /\ pc = "done"
    /\ ~first.ran
    /\ first' = [ran |-> TRUE, patch |-> patch, input |-> input, out |-> out,
                 issues |-> issues, err |-> returnErr]
    /\ pc' = "Check"
    /\ patch' = <<>>
    /\ s' = ZeroState
    /\ changes' = EmptyMap
    /\ absPath' = <<>>
    /\ input' = <<>>
    /\ out' = <<>>
    /\ writeAll' = FALSE
    /\ returnErr' = ""
    /\ UNCHANGED <<caller, c, issues, git>>

\* the first call has returned; Check is called again
CheckAgain ==
    /\ pc = "done"
    /\ ~first.ran
    /\ first' = [ran |-> TRUE, patch |-> patch, input |-> input, out |-> out,
                 issues |-> issues, err |-> returnErr]
    /\ pc' = "Check"
    /\ patch' = <<>>
    /\ s' = ZeroState
    /\ changes' = EmptyMap
    /\ absPath' = <<>>
    /\ input' = <<>>
    /\ out' = <<>>
    /\ issues' = <<>>
    /\ writeAll' = FALSE
    /\ returnErr' = ""
    /\ UNCHANGED <<caller, c, git>>

\* the first call reads any patch and any input
ScanFirst == ~first.ran /\ ScanGitText

ScanEndFirst == ~first.ran /\ ScanEnd

CheckLineFirst == ~first.ran /\ \E text \in AbsInputLines : CheckLine(text)

CheckEndFirst == ~first.ran /\ CheckEnd(FALSE)

\* the second call reads the lines the first call read
ScanSame ==
    /\ first.ran
    /\ Len(patch) < Len(first.patch)
    /\ ScanLine(first.patch[Len(patch) + 1])

ScanEndSame == first.ran /\ Len(patch) = Len(first.patch) /\ ScanEnd

CheckLineSame ==
    /\ first.ran
    /\ Len(input) < Len(first.input)
    /\ CheckLine(first.input[Len(input) + 1])

CheckEndSame == first.ran /\ Len(input) = Len(first.input) /\ CheckEnd(FALSE)

InitTwice ==
    /\ pc = "Check"
    /\ caller = "Check"
    /\ c \in [Patch : {"reader"}, NewFiles : NewFilesChoices, Regexp : {<<>>, BadRegexp},
              AbsPath : {<<>>}, RevisionFrom : {<<>>}, RevisionTo : {<<>>}]
    /\ patch = <<>>
    /\ s = ZeroState
    /\ changes = EmptyMap
    /\ absPath = <<>>
    /\ input = <<>>
    /\ out = <<>>
    /\ issues = <<>>
    /\ writeAll = FALSE
    /\ returnErr = ""
    /\ git = NoGit
    /\ first = NoRun

NextTwice ==
    \/ CheckStart
    \/ linesChangedEnter
    \/ ScanFirst
    \/ ScanEndFirst
    \/ CheckAbsPath(FALSE)
    \/ CheckLineFirst
    \/ CheckEndFirst
    \/ CheckAgain
    \/ ScanSame
    \/ ScanEndSame
    \/ CheckLineSame
    \/ CheckEndSame

SpecTwice == InitTwice /\ [][NextTwice]_vars

TextsOf(diff) == [i \in 1..Len(diff) |-> diff[i].text]

StateAfter(diff, j) ==
    scanAll(ZeroState, SeedNewFiles(EmptyMap, c.NewFiles), SubSeq(TextsOf(diff), 1, j)).s

RecordedAt(diff, j) ==
    Len(StateAfter(diff, j).changes.elems) = Len(StateAfter(diff, j - 1).changes.elems) + 1

RecordedLineNo(diff, j) == StateAfter(diff, j).lineNo

\* the file under which linesChanged records line j
RecordedFile(diff, j) == StateAfter(diff, j).file

(***************************************************************************)
(* C21.  Each addition that linesChanged records inside a hunk has lineNo  *)
(* greater than or equal to the new-start the hunk declares, and the       *)
(* additions recorded within one hunk have strictly increasing lineNo.     *)
(* Violated: an added line whose content starts with "++ " is read as a    *)
(* file header and sets lineNo back to 0 inside the hunk (C29).            *)
(***************************************************************************)
C21_LineNoFromDeclaredStart ==
    (Returned /\ caller = "test") =>
        \A j \in 1..Len(patch) :
            (patch[j].role = "add" /\ RecordedAt(patch, j)) =>
                /\ RecordedLineNo(patch, j) >= DeclaredStart(patch[HunkOf(patch, j)].text)
                /\ \A i \in (HunkOf(patch, j) + 1)..(j - 1) :
                      (patch[i].role = "add" /\ RecordedAt(patch, i))
                      => RecordedLineNo(patch, i) < RecordedLineNo(patch, j)

\* a sequence of numbers is strictly increasing
Increasing(seq) == \A i, j \in 1..Len(seq) : i < j => seq[i] < seq[j]

(***************************************************************************)
(* C22.  After linesChanged has scanned a diff whose hunks come top to     *)
(* bottom in the order of the file's lines, the entries of every file's    *)
(* list in the changed-line map are in strictly increasing lineNo order,   *)
(* across all the hunks of the file.                                       *)
(***************************************************************************)
C22_ListInLineNoOrder ==
    (Returned /\ caller = "test") =>
        \A f \in DOMAIN changes : Increasing(LineNos(changes[f]))

\* additions of two hunks of f.go, at lines 1 and 3, in one list
C22_Witness ==
    /\ pc = "parsed"
    /\ caller = "test"
    /\ Cardinality({i \in 1..Len(patch) : patch[i].role = "hunk"}) = 2
    /\ FileF \in DOMAIN changes
    /\ LineNos(changes[FileF]) = <<1, 3>>

\* no subprocess appears twice in the log of GitPatch
NoCommandTwice == \A i, j \in 1..Len(git.log) : i # j => git.log[i] # git.log[j]

\* the subprocess whose failure gives the error err
FailedCommand(err) ==
    IF err = "error executing git ls-files" THEN <<"git", "ls-files", "-o">>
    ELSE IF err = "error executing git diff" THEN <<"git", "diff">>
    ELSE IF err = "error executing git diff HEAD~" THEN <<"git", "diff", "HEAD~">>
    ELSE IF c.RevisionTo # <<>> THEN <<"git", "diff", c.RevisionFrom, c.RevisionTo>>
    ELSE <<"git", "diff", c.RevisionFrom>>

(***************************************************************************)
(* C23.  Once git status has succeeded, the first subprocess that fails    *)
(* (git ls-files or any git diff) makes GitPatch return at once with a nil *)
(* patch, a nil list of new files and a non-nil error: the failing command *)
(* is the last one of the log, no subprocess runs after it, and no command *)
(* is ever run twice.                                                      *)
(***************************************************************************)
C23_FirstFailureReturnsAtOnce ==
    /\ [](/\ NoCommandTwice
          /\ git.ret.err # "" =>
                /\ GitPatchReturned
                /\ git.ret.patch = "nil"
                /\ git.ret.newFiles = NilSlice
                /\ git.log[1] = <<"git", "status">>
                /\ git.log[Len(git.log)] = FailedCommand(git.ret.err))
    /\ [][git.ret.err # "" => git' = git]_vars
    /\ [][(git.ret.err = "" /\ git'.ret.err # "") => pc' = "gitReturned"]_vars

C23_Witness ==
    /\ pc = "done"
    /\ git.ret.err = "error executing git diff"
    /\ git.log = <<(<<"git", "status">>), (<<"git", "ls-files", "-o">>), (<<"git", "diff">>)>>
    /\ writeAll
    /\ Len(out) = 2

\* the git diff commands among the subprocesses GitPatch has run
DiffCommands == {i \in 1..Len(git.log) : git.log[i][2] = "diff"}

(***************************************************************************)
(* C24.  One call of GitPatch runs at most four subprocesses: git status,  *)
(* git ls-files -o, and one or two git diff commands (the second one, git  *)
(* diff HEAD~, only after a plain git diff that printed nothing while      *)
(* no file is untracked).                                                  *)
(***************************************************************************)
C24_AtMostFourSubprocesses ==
    /\ Len(git.log) <= 4
    /\ Cardinality(DiffCommands) <= 2
    /\ \A i \in 1..Len(git.log) :
          /\ git.log[i] = <<"git", "status">> <=> i = 1
          /\ git.log[i] = <<"git", "ls-files", "-o">> <=> i = 2
          /\ i \in DiffCommands <=> i > 2
    /\ Len(git.log) = 4 =>
          /\ git.log[3] = <<"git", "diff">>
          /\ git.log[4] = <<"git", "diff", "HEAD~">>
          /\ c.RevisionFrom = <<>>
          /\ ~git.unstaged
          /\ git.newFiles.isNil

\* C24 as the specification states it: at most two subprocesses, one to
\* list the untracked files and one to diff
C24_AtMostTwoSubprocesses == Len(git.log) <= 2

C24_Witness ==
    /\ pc = "done"
    /\ Len(git.log) = 4
    /\ git.ret.err = ""
    /\ git.ret.patch = "reader"

\* the pattern rejects the line, or its line number does not parse
Unparseable(text) ==
    \/ ~lineRE(text).ok
    \/ ParseUint(lineRE(text).g2).err # ""

\* the lines the loop of Check skips: in write-all mode a line the pattern
\* accepts is written before its line number is looked at
Skipped(text) ==
    \/ ~lineRE(text).ok
    \/ ~writeAll /\ ParseUint(lineRE(text).g2).err # ""

\* the writer and the issues after all of lines
RECURSIVE checkLines(_, _, _)
checkLines(lines, w, found) ==
    IF lines = <<>> THEN [out |-> w, issues |-> found]
    ELSE LET r == checkLine(changes, absPath, writeAll, Head(lines), w, found)
         IN  checkLines(Tail(lines), r.out, r.issues)

\* the reader without the lines that satisfy Test
RECURSIVE Without(_, _)
Without(Test(_), lines) ==
    IF lines = <<>> THEN <<>>
    ELSE IF Test(Head(lines)) THEN Without(Test, Tail(lines))
    ELSE <<Head(lines)>> \o Without(Test, Tail(lines))

\* the line that this step of Check reads is one that satisfies Test, and
\* the step writes nothing, returns no issue for it, leaves the error alone
\* and stays in the loop
ReadsAndSkips(Test(_)) ==
    (pc = "lines" /\ Len(input') = Len(input) + 1 /\ Test(input'[Len(input')])) =>
        /\ out' = out
        /\ issues' = issues
        /\ returnErr' = returnErr
        /\ pc' = "lines"

\* what Check has written and found is what it writes and finds for the
\* reader without the lines that satisfy Test
AsIfAbsent(Test(_)) ==
    pc \in {"lines", "done"} =>
        LET r == checkLines(Without(Test, input), <<>>, <<>>)
        IN  out = r.out /\ issues = r.issues

(***************************************************************************)
(* C25.  Outside write-all mode, an input line that the pattern rejects or *)
(* whose line number does not parse is skipped: nothing is written for it, *)
(* no Issue is returned for it, the error Check returns is unchanged, and  *)
(* the lines after it are processed as if it were absent.  In write-all    *)
(* mode this is so for the lines the pattern rejects only.                 *)
(***************************************************************************)
C25_SkippedLineChangesNothing ==
    /\ [][ReadsAndSkips(Skipped)]_vars
    /\ []AsIfAbsent(Skipped)

\* C25 as the specification states it: in every mode, a line whose line
\* number does not parse is skipped without output
C25_UnparseableLineChangesNothing ==
    /\ [][ReadsAndSkips(Unparseable)]_vars
    /\ []AsIfAbsent(Unparseable)

C25_Witness ==
    /\ pc = "done"
    /\ ~writeAll
    /\ input = <<InBig, InF1>>
    /\ out = <<InF1>>
    /\ Len(issues) = 1
    /\ returnErr = ""

\* the column of the line is there and does not parse
ColumnUnparseable(text) ==
    /\ lineRE(text).ok
    /\ Len(lineRE(text).g3) > 0
    /\ ParseUint(lineRE(text).g3).err # ""

\* the match of "f.go:1:999999999999999999999:m" is that of "f.go:1: m"
MatchedAsWithoutColumn ==
    InBigCol \in Elems(input) => (IsMatched(InBigCol) <=> ~Unmatched(changes, InF1))

(***************************************************************************)
(* C26.  A column number that does not parse never prevents the match of   *)
(* its line and never produces an error, and the ColNo of the Issue is 0.  *)
(* Violated: for a column of digits that 64 bits do not hold, ParseUint    *)
(* returns the largest uint64 with its error, Check ignores the error and  *)
(* keeps the value, and int(cno) makes ColNo -1.                           *)
(***************************************************************************)
C26_UnparseableColumnIsZero ==
    Matching =>
        /\ MatchedAsWithoutColumn
        /\ \A j \in 1..Len(issues) :
              ColumnUnparseable(issues[j].Issue) => issues[j].ColNo = 0

\* the part of C26 that holds: the line is matched as without its column,
\* and its Issue is that of the line but for ColNo
C26_ColumnNeverPreventsMatch ==
    Matching =>
        /\ MatchedAsWithoutColumn
        /\ \A j \in 1..Len(issues) :
              ColumnUnparseable(issues[j].Issue) =>
                  /\ issues[j].ColNo = -1
                  /\ issues[j].LineNo \in {0, 1}
                  /\ issues[j].File = FileF

(***************************************************************************)
(* Check with a patch supplied that holds malformed headers.               *)
(***************************************************************************)
\* "@@ -1 +x @@": the start of the hunk in the new file is not a number
HunkBadStart == <<"@","@"," ","-","1"," ","+","x"," ","@","@">>
\* "+++ x": a file header with a path of one character
HdrShort == <<"+","+","+"," ","x">>
\* "@@ -1": a hunk header of two fields
HunkShort == <<"@","@"," ","-","1">>
\* "@@ -1 ": a hunk header whose third field is empty
HunkNoStart == <<"@","@"," ","-","1"," ">>

MalformedTextLines == {HdrF, Hunk1, AddLine, HunkBadStart, HdrShort, HunkShort, HunkNoStart}

MalformedInputLines == {InF1, InJunk}

InitMalformed ==
    /\ pc = "Check"
    /\ caller = "Check"
    /\ c \in [Patch : {"reader"}, NewFiles : NewFilesChoices, Regexp : {<<>>},
              AbsPath : {<<>>}, RevisionFrom : {<<>>}, RevisionTo : {<<>>}]
    /\ patch = <<>>
    /\ s = ZeroState
    /\ changes = EmptyMap
    /\ absPath = <<>>
    /\ input = <<>>
    /\ out = <<>>
    /\ issues = <<>>
    /\ writeAll = FALSE
    /\ returnErr = ""
    /\ git = NoGit
    /\ first = NoRun

ScanMalformed ==
    \E text \in MalformedTextLines :
        /\ Len(patch) < MaxPatchLen
        /\ ScanLine(DiffLine("text", text))

NextMalformed ==
    \/ CheckStart
    \/ linesChangedEnter
    \/ ScanMalformed
    \/ ScanEnd
    \/ CheckAbsPath(FALSE)
    \/ \E text \in MalformedInputLines : CheckLine(text)
    \/ CheckEnd(FALSE)

SpecMalformed == InitMalformed /\ [][NextMalformed]_vars

\* the third field of a hunk header, without its first character, up to the
\* first comma: what linesChanged takes for the start in the new file
NewStart(line) == SliceFrom(Split(Split(line, " ")[3], ",")[1], 1)

\* a hunk header with a third field whose start is not a number
NonNumericStart(line) ==
    /\ HasPrefix(line, <<"@","@"," ">>)
    /\ Len(Split(line, " ")) >= 3
    /\ Len(Split(Split(line, " ")[3], ",")[1]) >= 1
    /\ ParseUint(NewStart(line)).err # ""

\* the lines of the patch that are hunk headers with a non-numeric start
BadStarts == {i \in 1..Len(patch) : NonNumericStart(patch[i].text)}

(***************************************************************************)
(* C27.  A hunk header whose start in the new file is not a number is      *)
(* fatal: linesChanged aborts at that line, reads no line after it and     *)
(* never returns a map, and Check writes nothing, returns no issue and     *)
(* reads no input line; nothing happens after the abort.                   *)
(***************************************************************************)
C27_NonNumericStartIsFatal ==
    /\ [](BadStarts # {} =>
             /\ pc = "panic"
             /\ BadStarts = {Len(patch)}
             /\ input = <<>>
             /\ out = <<>>
             /\ issues = <<>>)
    /\ [][pc = "panic" => pc' = "panic"]_vars

\* "+++ b/f.go", "+a", "@@ -1 +x @@": the addition already read is lost
C27_Witness ==
    /\ pc = "panic"
    /\ PatchText = <<HdrF, AddLine, HunkBadStart>>
    /\ Len(s.changes.elems) = 1
    /\ out = <<>>
    /\ issues = <<>>

(***************************************************************************)
(* C28.  On a patch without a hunk header whose start is not a number,     *)
(* linesChanged reads to the end and returns a map without aborting, also  *)
(* on a "+++ " header with a path of one character and on a "@@ " line of  *)
(* fewer than three fields or with an empty third field.                   *)
(* Violated: line[6:] on "+++ x", chdr[2] on "@@ -1" and ahdr[0][1:] on     *)
(* "@@ -1 " are out of range, and the program panics.                      *)
(***************************************************************************)
C28_OnlyNonNumericStartAborts ==
    BadStarts = {} => pc # "panic"

\* the file that the last genuine header before line j names
CurrentFile(diff, j) ==
    HeaderFile(diff[Max({h \in 1..j : diff[h].role = "hdr"})].text)

(***************************************************************************)
(* C29.  Inside a hunk, every line that begins with "+" is recorded as an  *)
(* addition of the current file whatever its content, and the current file *)
(* changes at genuine file headers only.                                   *)
(* Violated: an added line whose content is "++ b/g.go" is the text        *)
(* "+++ b/g.go"; linesChanged takes it for a file header, does not record  *)
(* it, and makes g.go the current file.                                    *)
(***************************************************************************)
C29_AdditionsRecordedWhateverContent ==
    (Returned /\ caller = "test") =>
        \A j \in 1..Len(patch) :
            /\ patch[j].role = "add" =>
                  /\ RecordedAt(patch, j)
                  /\ RecordedFile(patch, j) = CurrentFile(patch, j)
            /\ RecordedFile(patch, j) # StateAfter(patch, j - 1).file =>
                  patch[j].role = "hdr"

\* the part of C29 that holds: an added line whose text does not begin
\* with "+++ " is recorded, and the file it is recorded for is that of the
\* last line read as a header
C29_OtherAdditionsRecorded ==
    (Returned /\ caller = "test") =>
        \A j \in 1..Len(patch) :
            (patch[j].role = "add" /\ ~HasPrefix(patch[j].text, <<"+","+","+"," ">>)) =>
                /\ RecordedAt(patch, j)
                /\ RecordedFile(patch, j) = StateAfter(patch, j - 1).file

\* line j follows a no-newline marker of its hunk
AfterMarker(diff, j) ==
    \E i \in (HunkOf(diff, j) + 1)..(j - 1) : diff[i].role = "nonl"

\* no added line of the diff has the text of a file header
NoHeaderLikeAddition(diff) ==
    \A i \in 1..Len(diff) :
        diff[i].role = "add" => ~HasPrefix(diff[i].text, <<"+","+","+"," ">>)

(***************************************************************************)
(* C30.  A "\ No newline at end of file" marker inside a hunk does not     *)
(* shift the lineNo of the additions that follow it: they are recorded     *)
(* with their line numbers in the new file.                                *)
(* Violated: the marker falls in no case of the switch and keeps the       *)
(* increment of s.lineNo that every line gets, as a context line does, so  *)
(* the additions after it are recorded one line too far.                   *)
(***************************************************************************)
C30_MarkerDoesNotShiftLineNo ==
    (Returned /\ caller = "test" /\ NoHeaderLikeAddition(patch)) =>
        \A j \in 1..Len(patch) :
            (patch[j].role = "add" /\ AfterMarker(patch, j)) =>
                /\ RecordedAt(patch, j)
                /\ RecordedLineNo(patch, j) = NewLineNo(patch, j)

\* what the code does: one line too far for each marker before the addition
C30_MarkerShiftsLineNo ==
    (Returned /\ caller = "test" /\ NoHeaderLikeAddition(patch)) =>
        \A j \in 1..Len(patch) :
            patch[j].role = "add" =>
                /\ RecordedAt(patch, j)
                /\ RecordedLineNo(patch, j) = NewLineNo(patch, j)
                     + Cardinality({i \in (HunkOf(patch, j) + 1)..(j - 1) :
                                       patch[i].role = "nonl"})

====
